---- MODULE Spec2Model ----
(***************************************************************************)
(* A model of the segment index of tidwall/geometry: a series of points,   *)
(* its metadata sweep, the quadtree builder, the compressed layout, the    *)
(* rectangle search and the nearest search.                                *)
(*                                                                         *)
(* Coordinates are integers: the float64 values the model draws are small  *)
(* whole numbers, on which +, -, * and the halving (a+b)/2 used by the     *)
(* quadtree are exact (MidExact below states the halving never rounds).    *)
(* A float64 distance is a record [nan, v]; comparisons with NaN are false.*)
(* Addresses into the index blob are 0-based as in the source; data[addr]  *)
(* of the source is data[addr + 1] here.                                   *)
(***************************************************************************)
EXTENDS Integers, Sequences, FiniteSets, TLC

VARIABLES
    series,   \* the baseSeries under test
    opts,     \* the *IndexOptions it was made with
    op,       \* the last operation that ran
    query,    \* the arguments of the last operation
    moved,    \* the series returned by the last Move (<<>> when none)
    calls,    \* the callback invocations of the last Search, in order
    near,     \* the result of the last DistanceToSeries
    val,      \* codec: the uint64 handed to appendUvarint
    buf,      \* codec: the byte buffer written to and read from
    at,       \* codec: the address in buf the reading starts at
    got,      \* codec: what the last readUvarint returned
    phase,    \* codec: "idle", "start", "appended" or "read"
    heap,     \* queue: the slice of the queue
    popped,   \* queue: what every pop so far returned, [node, ok, mono]
    npush,    \* queue: the number of pushes so far
    nops,     \* queue: the number of pushes and pops so far
    under,    \* queue: an entry pushed since the last successful pop
              \* compares less than the entry that pop returned
    tree,     \* builder: the live qNode the inserts go to
    base,     \* builder: the depth of that node
    filled    \* builder: the number of segments inserted so far

seriesVars == <<series, opts, op, query, moved, calls, near>>

codecVars == <<val, buf, at, got, phase>>

queueVars == <<heap, popped, npush, nops, under>>

builderVars == <<tree, base, filled>>

vars == <<seriesVars, codecVars, queueVars, builderVars>>

----------------------------------------------------------------------------
(* Points, rectangles, segments *)

P(x, y) == [X |-> x, Y |-> y]

R(minx, miny, maxx, maxy) == [Min |-> P(minx, miny), Max |-> P(maxx, maxy)]

ZeroPoint == P(0, 0)

ZeroRect == [Min |-> ZeroPoint, Max |-> ZeroPoint]

ZeroSegment == [A |-> ZeroPoint, B |-> ZeroPoint]

\* Segment.Rect
SegRect(seg) ==
    [Min |-> P(IF seg.A.X > seg.B.X THEN seg.B.X ELSE seg.A.X,
               IF seg.A.Y > seg.B.Y THEN seg.B.Y ELSE seg.A.Y),
     Max |-> P(IF seg.A.X > seg.B.X THEN seg.A.X ELSE seg.B.X,
               IF seg.A.Y > seg.B.Y THEN seg.A.Y ELSE seg.B.Y)]

\* Rect.IntersectsRect: closed-interval overlap on both axes
IntersectsRect(rect, other) ==
    ~ (rect.Min.Y > other.Max.Y \/ rect.Max.Y < other.Min.Y)
    /\ ~ (rect.Min.X > other.Max.X \/ rect.Max.X < other.Min.X)

\* Rect.ContainsRect
ContainsRect(rect, other) ==
    /\ other.Min.X >= rect.Min.X /\ other.Max.X <= rect.Max.X
    /\ other.Min.Y >= rect.Min.Y /\ other.Max.Y <= rect.Max.Y

\* Point.Move
MovePoint(point, deltaX, deltaY) == P(point.X + deltaX, point.Y + deltaY)

----------------------------------------------------------------------------
(* float64 distances *)

NaN == [nan |-> TRUE, v |-> 0]

F(x) == [nan |-> FALSE, v |-> x]

\* a < b on float64
FLt(a, b) == ~a.nan /\ ~b.nan /\ a.v < b.v

\* a > b on float64
FGt(a, b) == ~a.nan /\ ~b.nan /\ a.v > b.v

----------------------------------------------------------------------------
(* Index options *)

None == 0

QuadTree == 1

DefaultMinPoints == 64

\* an *IndexOptions: the nil pointer has nil set and no fields to read
Opt(kind, minPoints) == [nil |-> FALSE, Kind |-> kind, MinPoints |-> minPoints]

NilOptions == [nil |-> TRUE, Kind |-> 0, MinPoints |-> 0]

DefaultIndexOptions == Opt(QuadTree, DefaultMinPoints)

NoIndexing == Opt(None, 0)

----------------------------------------------------------------------------
(* baseSeries accessors *)

NumPoints(s) == Len(s.points)

\* PointAt takes the 0-based index of the source
PointAt(s, index) == s.points[index + 1]

Empty(s) == (s.closed /\ Len(s.points) < 3) \/ Len(s.points) < 2

NumSegmentsBug(s) ==
    IF s.closed
    THEN IF Len(s.points) < 3 THEN 0 ELSE Len(s.points)
    ELSE IF Len(s.points) < 2 THEN 0 ELSE Len(s.points) - 1

NumSegments(s) ==
    IF s.closed
    THEN IF Len(s.points) < 3 THEN 0
         ELSE IF s.points[Len(s.points)] = s.points[1]
              THEN Len(s.points) - 1
              ELSE Len(s.points)
    ELSE IF Len(s.points) < 2 THEN 0
         ELSE Len(s.points) - 1

SegmentAt(s, index) ==
    [A |-> s.points[index + 1],
     B |-> IF index = Len(s.points) - 1
           THEN s.points[1]
           ELSE s.points[index + 2]]

----------------------------------------------------------------------------
(* Metadata sweep *)

\* The loops that run once a point or once a segment keep their variables,
\* the counter i among them, in one record st. The loop operator takes the
\* record and a number k of turns it may still take, and takes them in two
\* halves, each testing the loop's condition before every turn: called with
\* k at least the number of turns of the loop it runs the loop to its end,
\* and its evaluation nests no deeper than the logarithm of k.

\* a loop body that inflates the rectangle by the X of a point only: used
\* to show what the bounding box of C14 rests on
processStepBug(points, st) ==
    LET i == st.i
        pt == points[i + 1]
    IN [st EXCEPT !.i = i + 1,
                  !.rect = IF i = 0 THEN [Min |-> pt, Max |-> pt]
                           ELSE IF pt.X < st.rect.Min.X
                           THEN [st.rect EXCEPT !.Min.X = pt.X]
                           ELSE IF pt.X > st.rect.Max.X
                           THEN [st.rect EXCEPT !.Max.X = pt.X]
                           ELSE st.rect]

\* the body of the loop of processPoints; st = [i, rect, cwc, dir, concave]
processStep(points, st) ==
    LET i == st.i
        n == Len(points)
        pt == points[i + 1]
        rect ==
            IF i = 0 THEN [Min |-> pt, Max |-> pt]
            ELSE LET r1 ==
                        IF pt.X < st.rect.Min.X
                        THEN [st.rect EXCEPT !.Min.X = pt.X]
                        ELSE IF pt.X > st.rect.Max.X
                             THEN [st.rect EXCEPT !.Max.X = pt.X]
                             ELSE st.rect
                 IN IF pt.Y < r1.Min.Y
                    THEN [r1 EXCEPT !.Min.Y = pt.Y]
                    ELSE IF pt.Y > r1.Max.Y
                         THEN [r1 EXCEPT !.Max.Y = pt.Y]
                         ELSE r1
        a == pt
        b == IF i = n - 1 THEN points[1] ELSE points[i + 2]
        c == IF i = n - 1 THEN points[2]
             ELSE IF i = n - 2 THEN points[1]
             ELSE points[i + 3]
        cwc == st.cwc + (b.X - a.X) * (b.Y + a.Y)
        zCrossProduct == (b.X - a.X) * (c.Y - b.Y) - (b.Y - a.Y) * (c.X - b.X)
    IN IF st.concave
       THEN [st EXCEPT !.i = i + 1, !.rect = rect, !.cwc = cwc]
       ELSE IF st.dir = 0
       THEN [st EXCEPT !.i = i + 1, !.rect = rect, !.cwc = cwc,
                       !.dir = IF zCrossProduct < 0 THEN -1
                               ELSE IF zCrossProduct > 0 THEN 1 ELSE 0]
       ELSE [st EXCEPT !.i = i + 1, !.rect = rect, !.cwc = cwc,
                       !.concave = \/ (zCrossProduct < 0 /\ st.dir = 1)
                                   \/ (zCrossProduct > 0 /\ st.dir = -1)]

RECURSIVE processLoop(_, _, _)
processLoop(points, st, k) ==
    IF st.i >= Len(points) THEN st
    ELSE IF k <= 1 THEN processStep(points, st)
    ELSE processLoop(points, processLoop(points, st, k \div 2), k - k \div 2)

\* processPoints returns (convex, rect, clockwise)
processPoints(points, closed) ==
    IF (closed /\ Len(points) < 3) \/ Len(points) < 2
    THEN [convex |-> FALSE, rect |-> ZeroRect, clockwise |-> FALSE]
    ELSE LET st == processLoop(points,
                       [i |-> 0, rect |-> ZeroRect, cwc |-> 0, dir |-> 0,
                        concave |-> FALSE], Len(points))
         IN [convex |-> ~st.concave, rect |-> st.rect,
             clockwise |-> st.cwc > 0]

----------------------------------------------------------------------------
(* Quadtree builder *)

qMaxItems == 12

qMaxDepth == 64

\* new(qNode)
NewNode == [split |-> FALSE, items |-> <<>>, quads |-> <<<<>>, <<>>, <<>>, <<>>>>]

\* (a + b) / 2 on the float64 values of the model
Half(a, b) == (a + b) \div 2

\* chooseQuad without the test that keeps a rectangle straddling midX in
\* the node: used to show what the containment of C7 rests on
chooseQuadBug(bounds, rect) ==
    LET midX == Half(bounds.Min.X, bounds.Max.X)
        midY == Half(bounds.Min.Y, bounds.Max.Y)
    IN IF rect.Max.X < midX
       THEN IF rect.Max.Y < midY THEN 2
            ELSE IF rect.Min.Y < midY THEN -1
            ELSE 0
       ELSE IF rect.Max.Y < midY THEN 3
       ELSE IF rect.Min.Y < midY THEN -1
       ELSE 1

chooseQuad(bounds, rect) ==
    LET midX == Half(bounds.Min.X, bounds.Max.X)
        midY == Half(bounds.Min.Y, bounds.Max.Y)
    IN IF rect.Max.X < midX
       THEN IF rect.Max.Y < midY THEN 2
            ELSE IF rect.Min.Y < midY THEN -1
            ELSE 0
       ELSE IF rect.Min.X < midX THEN -1
       ELSE IF rect.Max.Y < midY THEN 3
       ELSE IF rect.Min.Y < midY THEN -1
       ELSE 1

quadBounds(bounds, q) ==
    LET centerX == Half(bounds.Min.X, bounds.Max.X)
        centerY == Half(bounds.Min.Y, bounds.Max.Y)
    IN CASE q = 0 -> [bounds EXCEPT !.Min.Y = centerY, !.Max.X = centerX]
         [] q = 1 -> [bounds EXCEPT !.Min.X = centerX, !.Min.Y = centerY]
         [] q = 2 -> [bounds EXCEPT !.Max.X = centerX, !.Max.Y = centerY]
         [] q = 3 -> [bounds EXCEPT !.Min.X = centerX, !.Max.Y = centerY]
         [] OTHER -> bounds

\* n.quads[q], made with new(qNode) when it is nil
QuadOrNew(n, q) == IF n.quads[q + 1] = <<>> THEN NewNode ELSE n.quads[q + 1][1]

RECURSIVE insert(_, _, _, _, _, _)
RECURSIVE splitLoop(_, _, _, _, _, _)

\* a split that marks the node and moves nothing into its quads
splitLoopBug(n, s, bounds, depth, i, nitems) == [n EXCEPT !.split = TRUE]

\* insert with the depth limit one level too deep
insertBug(n, s, bounds, rect, item, depth) ==
    IF depth = qMaxDepth + 1
    THEN [n EXCEPT !.items = Append(n.items, item)]
    ELSE IF n.split
    THEN LET q == chooseQuad(bounds, rect)
         IN IF q = -1
            THEN [n EXCEPT !.items = Append(n.items, item)]
            ELSE [n EXCEPT !.quads[q + 1] =
                     <<insert(QuadOrNew(n, q), s, quadBounds(bounds, q),
                              rect, item, depth + 1)>>]
    ELSE IF Len(n.items) = qMaxItems
    THEN insert(splitLoop(n, s, bounds, depth, 1, <<>>),
                s, bounds, rect, item, depth)
    ELSE [n EXCEPT !.items = Append(n.items, item)]

\* the loop of the split branch of insert: redistributes n.items[i..],
\* collecting the straddlers in nitems and the others in n's quads
splitLoop(n, s, bounds, depth, i, nitems) ==
    IF i > Len(n.items) THEN [n EXCEPT !.items = nitems, !.split = TRUE]
    ELSE LET iitem == n.items[i]
             irect == SegRect(SegmentAt(s, iitem))
             q == chooseQuad(bounds, irect)
         IN IF q = -1
            THEN splitLoop(n, s, bounds, depth, i + 1, Append(nitems, iitem))
            ELSE splitLoop(
                     [n EXCEPT !.quads[q + 1] =
                         <<insert(QuadOrNew(n, q), s, quadBounds(bounds, q),
                                  irect, iitem, depth + 1)>>],
                     s, bounds, depth, i + 1, nitems)

insert(n, s, bounds, rect, item, depth) ==
    IF depth = qMaxDepth
    THEN [n EXCEPT !.items = Append(n.items, item)]
    ELSE IF n.split
    THEN LET q == chooseQuad(bounds, rect)
         IN IF q = -1
            THEN [n EXCEPT !.items = Append(n.items, item)]
            ELSE [n EXCEPT !.quads[q + 1] =
                     <<insert(QuadOrNew(n, q), s, quadBounds(bounds, q),
                              rect, item, depth + 1)>>]
    ELSE IF Len(n.items) = qMaxItems
    THEN insert(splitLoop(n, s, bounds, depth, 1, <<>>),
                s, bounds, rect, item, depth)
    ELSE [n EXCEPT !.items = Append(n.items, item)]

----------------------------------------------------------------------------
(* Varint codec *)

\* A uint64 is kept as three limbs <<l0, l1, l2>>, low limb first: l0 and l1
\* hold 28 bits each (four 7-bit groups), l2 the top 8 bits (bits 56..63).

\* 2^s
RECURSIVE Pow2(_)
Pow2(s) == IF s = 0 THEN 1 ELSE 2 * Pow2(s - 1)

\* the weight of a limb of 28 bits
Limb == Pow2(28)

\* the weight of the fourth 7-bit group of a limb
TopGroup == Pow2(21)

\* uint64(n) for an int n >= 0
Uint64(n) == <<n % Limb, n \div Limb, 0>>

\* int(x) for a uint64 x below 2^31
ToInt(x) == x[1] + Limb * x[2]

\* x < 0x80
Below128(x) == x[2] = 0 /\ x[3] = 0 /\ x[1] < 128

\* a x >> 7 that loses the bits that cross from one limb to the next: used
\* to show what the round trip of C19 rests on
Shr7Bug(x) == <<x[1] \div 128, x[2] \div 128, x[3] \div 128>>

\* x >> 7
Shr7(x) ==
    <<(x[1] \div 128) + (x[2] % 128) * TopGroup,
      (x[2] \div 128) + (x[3] % 128) * TopGroup,
      x[3] \div 128>>

\* g << s as a uint64, for g < 0x80 and the shifts 0, 7, .., 63 of the codec:
\* at 63 only the low bit of g stays inside the 64 bits
Shl(g, s) ==
    IF s < 28 THEN <<g * Pow2(s), 0, 0>>
    ELSE IF s < 56 THEN <<0, g * Pow2(s - 28), 0>>
    ELSE IF s = 56 THEN <<0, 0, g>>
    ELSE <<0, 0, (g % 2) * 128>>

\* x | y for uint64 values that share no set bit
Or(x, y) == <<x[1] + y[1], x[2] + y[2], x[3] + y[3]>>

\* binary.PutUvarint: 7 bits a byte, low group first, 0x80 on all but the last
RECURSIVE PutUvarint(_)
PutUvarint(x) ==
    IF Below128(x) THEN <<x[1]>>
    ELSE <<(x[1] % 128) + 128>> \o PutUvarint(Shr7(x))

appendUvarint(dst, x) ==
    IF Below128(x) THEN Append(dst, x[1]) ELSE dst \o PutUvarint(x)

\* the loop of readUvarint: item holds the groups read so far, s the shift
RECURSIVE readLoop(_, _, _, _)

\* a loop that gives up one byte early, when the shift reaches 63: used to
\* show what the sentinel of C20 rests on
readLoopBug(data, addr, item, s) ==
    LET b == data[addr + 1]
    IN IF b < 128 THEN <<Or(item, Shl(b, s)), addr + 1>>
       ELSE IF s + 7 = 63 THEN <<Uint64(0), -1>>
       ELSE readLoop(data, addr + 1, Or(item, Shl(b % 128, s)), s + 7)

readLoop(data, addr, item, s) ==
    LET b == data[addr + 1]
    IN IF b < 128 THEN <<Or(item, Shl(b, s)), addr + 1>>
       ELSE IF s + 7 = 70 THEN <<Uint64(0), -1>>
       ELSE readLoop(data, addr + 1, Or(item, Shl(b % 128, s)), s + 7)

\* readUvarint returns <<value, next address>>, or <<0, -1>> on overflow
readUvarint(data, addr) ==
    LET item == data[addr + 1]
    IN IF item < 128 THEN <<Uint64(item), addr + 1>>
       ELSE readLoop(data, addr + 1, Uint64(item % 128), 7)

----------------------------------------------------------------------------
(* Compressed layout *)

\* sort.Ints
RECURSIVE SortInts(_)
SortInts(items) ==
    IF Len(items) <= 1 THEN items
    ELSE LET m == CHOOSE i \in 1..Len(items) :
                      \A j \in 1..Len(items) :
                          items[i] < items[j] \/ (items[i] = items[j] /\ i <= j)
         IN <<items[m]>> \o
            SortInts([k \in 1..(Len(items) - 1) |->
                         IF k < m THEN items[k] ELSE items[k + 1]])

\* the delta loop of compress over the sorted items
RECURSIVE compressItems(_, _, _, _)
compressItems(dst, items, i, last) ==
    IF i > Len(items) THEN dst
    ELSE compressItems(appendUvarint(dst, Uint64(items[i] - last)), items,
                       i + 1,
                       items[i])

RECURSIVE compress(_, _)
RECURSIVE compressQuads(_, _, _)

\* the quadrant loop writing the quads in the order 3, 2, 1, 0
compressQuadsBug(n, dst, q) ==
    IF q = 4 THEN dst
    ELSE IF n.quads[4 - q] # <<>>
    THEN LET dst2 == compress(n.quads[4 - q][1], <<>>)
         IN compressQuads(n, appendUvarint(dst, Uint64(Len(dst2))) \o dst2,
                          q + 1)
    ELSE compressQuads(n, Append(dst, 0), q + 1)

compressQuads(n, dst, q) ==
    IF q = 4 THEN dst
    ELSE IF n.quads[q + 1] # <<>>
    THEN LET dst2 == compress(n.quads[q + 1][1], <<>>)
         IN compressQuads(n, appendUvarint(dst, Uint64(Len(dst2))) \o dst2,
                          q + 1)
    ELSE compressQuads(n, Append(dst, 0), q + 1)

compress(n, dst) ==
    LET items == SortInts(n.items)
        d1 == appendUvarint(dst, Uint64(Len(items)))
        d2 == compressItems(d1, items, 1, 0)
    IN IF ~n.split THEN Append(d2, 0)
       ELSE compressQuads(n, Append(d2, 1), 0)

\* binary.LittleEndian.PutUint32 as a 4-byte sequence
PutUint32(v) ==
    <<v % 256, (v \div 256) % 256, (v \div 65536) % 256,
      (v \div 16777216) % 256>>

\* binary.LittleEndian.Uint32(data[addr:])
Uint32(data, addr) ==
    data[addr + 1] + 256 * data[addr + 2] + 65536 * data[addr + 3]
        + 16777216 * data[addr + 4]

\* setCompressed returns the series with the blob, its length backpatched
setCompressed(s, data) ==
    [s EXCEPT !.index =
        [k \in 1..Len(data) |->
            IF k \in 2..5 THEN PutUint32(Len(data))[k - 1] ELSE data[k]]]

\* the body of the loop of buildIndex; st = [i, root]
buildStep(s, st) ==
    [i |-> st.i + 1,
     root |-> insert(st.root, s, s.rect, SegRect(SegmentAt(s, st.i)), st.i, 0)]

RECURSIVE buildLoop(_, _, _)
buildLoop(s, st, k) ==
    IF st.i >= NumSegments(s) THEN st
    ELSE IF k <= 1 THEN buildStep(s, st)
    ELSE buildLoop(s, buildLoop(s, st, k \div 2), k - k \div 2)

\* the live tree buildIndex compresses
buildTree(s) ==
    buildLoop(s, [i |-> 0, root |-> NewNode], NumSegments(s)).root

buildIndex(s) ==
    IF s.index # <<>> THEN s
    ELSE setCompressed(s, compress(buildTree(s), <<s.indexKind, 0, 0, 0, 0>>))

clearIndex(s) == [s EXCEPT !.index = <<>>]

makeSeries(points, closed, o) ==
    LET opt == IF o.nil THEN DefaultIndexOptions ELSE o
        pp == processPoints(points, closed)
        s0 == [closed |-> closed, clockwise |-> pp.clockwise,
               convex |-> pp.convex, indexKind |-> None, index |-> <<>>,
               rect |-> pp.rect, points |-> points]
    IN IF opt.MinPoints # 0 /\ Len(points) >= opt.MinPoints
       THEN buildIndex([s0 EXCEPT !.indexKind = opt.Kind])
       ELSE s0

\* a Move that shifts the points of its receiver in place and returns it:
\* used to show what the frame of C8 rests on
MoveBug(s, deltaX, deltaY) ==
    LET points == [i \in 1..Len(s.points) |->
                      P(s.points[i].X + deltaX, s.points[i].Y + deltaY)]
        nseries == [makeSeries(points, s.closed, NilOptions)
                        EXCEPT !.indexKind = s.indexKind]
        ret == IF Len(s.index) > 0 THEN buildIndex(nseries) ELSE nseries
    IN [self |-> ret, ret |-> ret]

\* Move has a pointer receiver: it returns [self, ret], the receiver as the
\* call leaves it and the series the call returns
Move(s, deltaX, deltaY) ==
    LET points == [i \in 1..Len(s.points) |->
                      P(s.points[i].X + deltaX, s.points[i].Y + deltaY)]
        nseries == [makeSeries(points, s.closed, NilOptions)
                        EXCEPT !.indexKind = s.indexKind]
    IN [self |-> s,
        ret |-> IF Len(s.index) > 0 THEN buildIndex(nseries) ELSE nseries]

----------------------------------------------------------------------------
(* Rectangle search *)

\* The callback iter of a Search: cb = 0 always returns true; cb = k > 0
\* returns true on its first k - 1 invocations and false on the k-th.
\* ncalls counts the invocations made, this one included.
iterReturns(cb, ncalls) == cb = 0 \/ ncalls < cb

\* one invocation iter(seg, idx), as recorded in calls
Call(seg, idx) == [seg |-> seg, idx |-> idx]

\* the body of the linear scan of baseSeries.Search; st = [i, calls, done],
\* done once iter has returned false
searchStep(s, rect, cb, st) ==
    IF ~IntersectsRect(SegRect(SegmentAt(s, st.i)), rect)
    THEN [st EXCEPT !.i = st.i + 1]
    ELSE [i |-> st.i + 1,
          calls |-> Append(st.calls, Call(SegmentAt(s, st.i), st.i)),
          done |-> ~iterReturns(cb, Len(st.calls) + 1)]

RECURSIVE searchLinear(_, _, _, _, _)
searchLinear(s, rect, cb, st, k) ==
    IF st.i >= NumSegments(s) \/ st.done THEN st
    ELSE IF k <= 1 THEN searchStep(s, rect, cb, st)
    ELSE searchLinear(s, rect, cb, searchLinear(s, rect, cb, st, k \div 2),
                      k - k \div 2)

RECURSIVE qCompressSearch(_, _, _, _, _, _, _)
RECURSIVE searchItems(_, _, _, _, _, _, _, _)
RECURSIVE searchQuads(_, _, _, _, _, _, _, _)

\* the item loop of qCompressSearch: i items read so far of nitems
searchItems(data, addr, s, rect, cb, i, nitems, st) ==
    IF i >= nitems THEN [ok |-> TRUE, addr |-> addr, last |-> st.last,
                         calls |-> st.calls]
    ELSE LET rd == readUvarint(data, addr)
             item == ToInt(rd[1]) + st.last
             seg == SegmentAt(s, item)
         IN IF IntersectsRect(SegRect(seg), rect)
            THEN LET cs2 == Append(st.calls, Call(seg, item))
                 IN IF ~iterReturns(cb, Len(cs2))
                    THEN [ok |-> FALSE, addr |-> rd[2], last |-> item,
                          calls |-> cs2]
                    ELSE searchItems(data, rd[2], s, rect, cb, i + 1, nitems,
                                     [last |-> item, calls |-> cs2])
            ELSE searchItems(data, rd[2], s, rect, cb, i + 1, nitems,
                             [last |-> item, calls |-> st.calls])

\* the quadrant loop leaving the node after the first quadrant it descends
\* into: used to show what the completeness of C1 rests on
searchQuadsSkipBug(data, addr, s, bounds, rect, cb, q, cs) ==
    IF q = 4 THEN [ok |-> TRUE, calls |-> cs]
    ELSE LET rd == readUvarint(data, addr)
             qsize == ToInt(rd[1])
             qbounds == quadBounds(bounds, q)
         IN IF qsize = 0
            THEN searchQuads(data, rd[2], s, bounds, rect, cb, q + 1, cs)
            ELSE IF IntersectsRect(qbounds, rect)
            THEN qCompressSearch(data, rd[2], s, qbounds, rect, cb, cs)
            ELSE searchQuads(data, rd[2] + qsize, s, bounds, rect, cb, q + 1,
                             cs)

\* the quadrant loop going on to the next quadrant whatever the search of a
\* quadrant returned: used to show what the early stop of C5 rests on
searchQuadsGoOnBug(data, addr, s, bounds, rect, cb, q, cs) ==
    IF q = 4 THEN [ok |-> TRUE, calls |-> cs]
    ELSE LET rd == readUvarint(data, addr)
             qsize == ToInt(rd[1])
             qbounds == quadBounds(bounds, q)
         IN IF qsize = 0
            THEN searchQuads(data, rd[2], s, bounds, rect, cb, q + 1, cs)
            ELSE IF IntersectsRect(qbounds, rect)
            THEN searchQuads(data, rd[2] + qsize, s, bounds, rect, cb, q + 1,
                     qCompressSearch(data, rd[2], s, qbounds, rect, cb,
                                     cs).calls)
            ELSE searchQuads(data, rd[2] + qsize, s, bounds, rect, cb, q + 1,
                             cs)

\* the quadrant loop of qCompressSearch from quadrant q on
searchQuads(data, addr, s, bounds, rect, cb, q, cs) ==
    IF q = 4 THEN [ok |-> TRUE, calls |-> cs]
    ELSE LET rd == readUvarint(data, addr)
             qsize == ToInt(rd[1])
             qbounds == quadBounds(bounds, q)
         IN IF qsize = 0
            THEN searchQuads(data, rd[2], s, bounds, rect, cb, q + 1, cs)
            ELSE IF IntersectsRect(qbounds, rect)
            THEN LET sub == qCompressSearch(data, rd[2], s, qbounds, rect,
                                            cb, cs)
                 IN IF ~sub.ok THEN sub
                    ELSE searchQuads(data, rd[2] + qsize, s, bounds, rect, cb,
                                     q + 1, sub.calls)
            ELSE searchQuads(data, rd[2] + qsize, s, bounds, rect, cb, q + 1,
                             cs)

\* qCompressSearch returns [ok, calls]: its boolean result and the
\* invocations of iter so far (cs holds those made before the call)
qCompressSearch(data, addr, s, bounds, rect, cb, cs) ==
    LET rd == readUvarint(data, addr)
        it == searchItems(data, rd[2], s, rect, cb, 0, ToInt(rd[1]),
                          [last |-> 0, calls |-> cs])
    IN IF ~it.ok THEN [ok |-> FALSE, calls |-> it.calls]
       ELSE IF data[it.addr + 1] = 1
       THEN searchQuads(data, it.addr + 1, s, bounds, rect, cb, 0, it.calls)
       ELSE [ok |-> TRUE, calls |-> it.calls]

\* baseSeries.Search: the sequence of invocations of iter
Search(s, rect, cb) ==
    IF Len(s.index) = 0
    THEN searchLinear(s, rect, cb,
                      [i |-> 0, calls |-> <<>>, done |-> FALSE],
                      NumSegments(s)).calls
    ELSE LET n == Uint32(s.index, 1)
             data == SubSeq(s.index, 1, n)
         IN qCompressSearch(data, 5, s, s.rect, rect, cb, <<>>).calls

----------------------------------------------------------------------------
(* Priority queue *)

qrect == 1

qseg == 2

\* the zero qnode
ZeroQnode == [dist |-> F(0), kind |-> 0, pos |-> 0, a |-> ZeroPoint,
              b |-> ZeroPoint]

\* cmp with the order of the kinds reversed, a segment before a rectangle
\* at the same distance: used to show what the tie-break of C2 rests on
cmpBug(qn, other) ==
    IF FLt(qn.dist, other.dist) THEN -1
    ELSE IF FGt(qn.dist, other.dist) THEN 1
    ELSE IF qn.kind > other.kind THEN -1
    ELSE IF qn.kind < other.kind THEN 1
    ELSE IF qn.pos < other.pos THEN -1
    ELSE IF qn.pos > other.pos THEN 1
    ELSE 0

\* cmp without its last key: entries of one dist and kind all compare equal
cmpNoPosBug(qn, other) ==
    IF FLt(qn.dist, other.dist) THEN -1
    ELSE IF FGt(qn.dist, other.dist) THEN 1
    ELSE IF qn.kind < other.kind THEN -1
    ELSE IF qn.kind > other.kind THEN 1
    ELSE 0

cmp(qn, other) ==
    IF FLt(qn.dist, other.dist) THEN -1
    ELSE IF FGt(qn.dist, other.dist) THEN 1
    ELSE IF qn.kind < other.kind THEN -1
    ELSE IF qn.kind > other.kind THEN 1
    ELSE IF qn.pos < other.pos THEN -1
    ELSE IF qn.pos > other.pos THEN 1
    ELSE 0

\* nodes with the entries at the 0-based i and j exchanged
Swap(nodes, i, j) ==
    [nodes EXCEPT ![i + 1] = nodes[j + 1], ![j + 1] = nodes[i + 1]]

\* the sift-up loop of push
RECURSIVE siftUp(_, _)
siftUp(nodes, i) ==
    LET parent == (i - 1) \div 2
    IN IF i # 0 /\ cmp(nodes[parent + 1], nodes[i + 1]) > 0
       THEN siftUp(Swap(nodes, parent, i), parent)
       ELSE nodes

\* push without its sift-up loop
pushBug(q, node) == Append(q, node)

push(q, node) == siftUp(Append(q, node), Len(q))

\* the sift-down loop of pop
RECURSIVE siftDown(_, _)
siftDown(nodes, i) ==
    LET left == i * 2 + 1
        right == i * 2 + 2
        s1 == IF left < Len(nodes) /\ cmp(nodes[left + 1], nodes[i + 1]) <= 0
              THEN left ELSE i
        smallest ==
              IF right < Len(nodes) /\ cmp(nodes[right + 1], nodes[s1 + 1]) <= 0
              THEN right ELSE s1
    IN IF smallest = i THEN nodes
       ELSE siftDown(Swap(nodes, smallest, i), smallest)

\* pop without its sift-down loop
popBug(q) ==
    IF Len(q) = 0 THEN [node |-> ZeroQnode, ok |-> FALSE, q |-> q]
    ELSE [node |-> q[1], ok |-> TRUE,
          q |-> SubSeq([q EXCEPT ![1] = q[Len(q)]], 1, Len(q) - 1)]

\* pop returns [node, ok] and the queue it leaves as q
pop(q) ==
    IF Len(q) = 0 THEN [node |-> ZeroQnode, ok |-> FALSE, q |-> q]
    ELSE [node |-> q[1], ok |-> TRUE,
          q |-> siftDown(SubSeq([q EXCEPT ![1] = q[Len(q)]], 1, Len(q) - 1),
                         0)]

----------------------------------------------------------------------------
(* Distance functionals: the two closures a caller hands DistanceToSeries. *)
(* fn = [kind, p]. kind "rect" is the squared Euclidean distance from p to *)
(* a rectangle, a segment measured by its rectangle; kind "mid" is twice   *)
(* the Manhattan distance from p to a rectangle, a segment measured by its *)
(* midpoint. Both keep the lower-bound contract of distToRect.             *)

Abs(x) == IF x < 0 THEN -x ELSE x

\* how far v lies outside the interval lo..hi
Gap(v, lo, hi) == IF v < lo THEN lo - v ELSE IF v > hi THEN v - hi ELSE 0

distToRect(fn, rect) ==
    LET dx == Gap(fn.p.X, rect.Min.X, rect.Max.X)
        dy == Gap(fn.p.Y, rect.Min.Y, rect.Max.Y)
    IN IF fn.kind = "rect" THEN F(dx * dx + dy * dy)
       ELSE F(2 * (dx + dy))

distToSegment(fn, seg) ==
    IF fn.kind = "rect" THEN distToRect(fn, SegRect(seg))
    ELSE F(Abs(2 * fn.p.X - (seg.A.X + seg.B.X))
           + Abs(2 * fn.p.Y - (seg.A.Y + seg.B.Y)))

----------------------------------------------------------------------------
(* Nearest search *)

\* the empty result of the nearest search
EmptyNear == [seg |-> ZeroSegment, idx |-> -1, dist |-> NaN]

\* the item loop of qCompressNearbySegment: st = [nearSet, nearSeg, last]
RECURSIVE nearItems(_, _, _, _, _, _, _)
nearItems(data, addr, s, fn, i, nitems, st) ==
    IF i >= nitems THEN [st EXCEPT !.addr = addr]
    ELSE LET rd == readUvarint(data, addr)
             item == ToInt(rd[1]) + st.last
             seg == SegmentAt(s, item)
             dist == distToSegment(fn, seg)
         IN IF ~st.nearSet \/ FLt(dist, st.nearSeg.dist)
            THEN nearItems(data, rd[2], s, fn, i + 1, nitems,
                     [nearSet |-> TRUE,
                      nearSeg |-> [dist |-> dist, kind |-> qseg, pos |-> item,
                                   a |-> seg.A, b |-> seg.B],
                      last |-> item, addr |-> rd[2]])
            ELSE nearItems(data, rd[2], s, fn, i + 1, nitems,
                     [st EXCEPT !.last = item, !.addr = rd[2]])

\* the quadrant loop of qCompressNearbySegment: pushes one rect a quadrant
RECURSIVE nearQuads(_, _, _, _, _, _)
nearQuads(data, addr, bounds, fn, i, q) ==
    IF i = 4 THEN q
    ELSE LET rd == readUvarint(data, addr)
             qsize == ToInt(rd[1])
             qbounds == quadBounds(bounds, i)
         IN IF qsize = 0
            THEN nearQuads(data, rd[2], bounds, fn, i + 1, q)
            ELSE nearQuads(data, rd[2] + qsize, bounds, fn, i + 1,
                     push(q, [dist |-> distToRect(fn, qbounds),
                              kind |-> qrect, pos |-> rd[2],
                              a |-> qbounds.Min, b |-> qbounds.Max]))

\* one turn of outer_loop with the queue q, and the turns that follow
RECURSIVE nearOuter(_, _, _, _, _, _)
nearOuter(data, addr, s, bounds, fn, q) ==
    LET rd == readUvarint(data, addr)
        it == nearItems(data, rd[2], s, fn, 0, ToInt(rd[1]),
                        [nearSet |-> FALSE, nearSeg |-> ZeroQnode,
                         last |-> 0, addr |-> rd[2]])
        q1 == IF it.nearSet THEN push(q, it.nearSeg) ELSE q
        split == data[it.addr + 1] = 1
        q2 == IF split THEN nearQuads(data, it.addr + 1, bounds, fn, 0, q1)
              ELSE q1
        top == pop(q2)
    IN IF ~top.ok THEN EmptyNear
       ELSE IF top.node.kind = qseg
       THEN [seg |-> [A |-> top.node.a, B |-> top.node.b],
             idx |-> top.node.pos, dist |-> top.node.dist]
       ELSE nearOuter(data, top.node.pos, s,
                      [Min |-> top.node.a, Max |-> top.node.b], fn, top.q)

\* the queue comes from the pool emptied: *q = (*q)[:0]
qCompressNearbySegment(data, addr, s, bounds, fn) ==
    nearOuter(data, addr, s, bounds, fn, <<>>)

\* the body of the linear scan of DistanceToSeries; st = [i, seg, idx, dist]
\* holds the counter and the named results, of which idx is never assigned
distStep(s, fn, st) ==
    IF st.i = 0 \/ FLt(distToSegment(fn, SegmentAt(s, st.i)), st.dist)
    THEN [st EXCEPT !.i = st.i + 1,
                    !.seg = SegmentAt(s, st.i),
                    !.dist = distToSegment(fn, SegmentAt(s, st.i))]
    ELSE [st EXCEPT !.i = st.i + 1]

RECURSIVE distLinear(_, _, _, _)
distLinear(s, fn, st, k) ==
    IF st.i >= NumSegments(s) THEN st
    ELSE IF k <= 1 THEN distStep(s, fn, st)
    ELSE distLinear(s, fn, distLinear(s, fn, st, k \div 2), k - k \div 2)

DistanceToSeries(s, fn) ==
    IF Len(s.index) = 0
    THEN LET st == distLinear(s, fn, [i |-> 0, seg |-> ZeroSegment,
                                       idx |-> 0, dist |-> NaN],
                              NumSegments(s))
         IN [seg |-> st.seg, idx |-> st.idx, dist |-> st.dist]
    ELSE LET n == Uint32(s.index, 1)
             data == SubSeq(s.index, 1, n)
         IN qCompressNearbySegment(data, 5, s, s.rect, fn)

----------------------------------------------------------------------------
(* The inputs the model draws *)

\* the longest point sequence enumerated point by point
MaxSmall == 3

\* the largest stop count of a Search callback (0 is "never stops")
MaxStop == 2

SmallPts == {P(0, 0), P(16, 0), P(16, 16)}

\* every point sequence of length at most MaxSmall over SmallPts
SmallShapes == UNION {[1..n -> SmallPts] : n \in 0..MaxSmall}

\* n points of a path that snakes row by row over a grid 8 points wide
Snake(n) ==
    [i \in 1..n |->
        LET r == (i - 1) \div 8
            c == (i - 1) % 8
        IN P(16 * (IF r % 2 = 0 THEN c ELSE 7 - c), 16 * r)]

\* a far point, then n - 1 points snaking over a corner grid 4 points wide
Blob(n) ==
    [i \in 1..n |->
        IF i = 1 THEN P(128, 128)
        ELSE LET r == (i - 2) \div 4
                 c == (i - 2) % 4
             IN P(16 * (IF r % 2 = 0 THEN c ELSE 3 - c), 16 * r)]

\* n copies of one point
Same(n) == [i \in 1..n |-> P(16, 16)]

\* the octagon of series_test.go, 16 units to the unit
Octagon ==
    <<P(0, 48), P(48, 0), P(112, 0), P(160, 48), P(160, 112), P(112, 160),
      P(48, 160), P(0, 112), P(0, 48)>>

\* a path that turns left at every corner and ends inside its own hull
Spiral == <<P(16, 16), P(32, 16), P(32, 32), P(0, 32), P(0, 0)>>

BigShapes == {Snake(14), Snake(20), Snake(64), Blob(16), Blob(30), Same(13),
              Octagon, Spiral}

SmallOpts == {NilOptions, NoIndexing, Opt(QuadTree, 2), Opt(None, 1),
              Opt(QuadTree, -1)}

BigOpts == {NilOptions, NoIndexing, Opt(QuadTree, 1)}

\* the (points, options) pairs handed to makeSeries
Inputs == (SmallShapes \X SmallOpts) \cup (BigShapes \X BigOpts)

\* the query rectangles of Search, besides the series' own rectangle
QueryRects ==
    {R(0, 0, 0, 0), R(0, 0, 160, 160), R(40, 40, 72, 72), R(-9, -9, -1, -1),
     R(64, 0, 64, 128), R(0, 0, 20, 20)}

\* the translations of Move
Deltas == {<<16, -32>>, <<-48, 0>>}

\* the distance functionals of DistanceToSeries
Functionals ==
    [kind : {"rect", "mid"},
     p : {P(0, 0), P(50, 30), P(-20, 200), P(16, 16)}]

----------------------------------------------------------------------------
(* The state machine *)

\* the zero baseSeries
NoSeries == [closed |-> FALSE, clockwise |-> FALSE, convex |-> FALSE,
             indexKind |-> None, index |-> <<>>, rect |-> ZeroRect,
             points |-> <<>>]

NoQuery == [rect |-> ZeroRect, cb |-> 0, fn |-> [kind |-> "rect", p |-> ZeroPoint],
            dx |-> 0, dy |-> 0]

NoNear == [seg |-> ZeroSegment, idx |-> 0, dist |-> NaN]

\* the codec at rest
CodecIdle ==
    /\ val = <<0, 0, 0>> /\ buf = <<>> /\ at = 0 /\ got = <<<<0, 0, 0>>, 0>>
    /\ phase = "idle"

\* the queue at rest
QueueIdle ==
    /\ heap = <<>> /\ popped = <<>> /\ npush = 0 /\ nops = 0
    /\ under = FALSE

\* the builder at rest
BuilderIdle == tree = NewNode /\ base = 0 /\ filled = 0

Init ==
    /\ \E in \in Inputs, closed \in BOOLEAN :
          /\ series = makeSeries(in[1], closed, in[2])
          /\ opts = in[2]
          /\ op = "makeSeries"
          /\ query = NoQuery
          /\ moved = NoSeries
          /\ calls = <<>>
          /\ near = NoNear
    /\ CodecIdle
    /\ QueueIdle
    /\ BuilderIdle

\* the caller holds no result of an earlier call
Ready == op \in {"makeSeries", "idle"}

BuildIndex ==
    /\ Ready
    /\ series' = buildIndex(series)
    /\ op' = "buildIndex"
    /\ UNCHANGED <<opts, query, moved, calls, near, codecVars, queueVars, builderVars>>

ClearIndex ==
    /\ Ready
    /\ series' = clearIndex(series)
    /\ op' = "clearIndex"
    /\ UNCHANGED <<opts, query, moved, calls, near, codecVars, queueVars, builderVars>>

MoveOp ==
    /\ Ready
    /\ \E d \in Deltas :
        /\ series' = Move(series, d[1], d[2]).self
        /\ moved' = Move(series, d[1], d[2]).ret
        /\ query' = [NoQuery EXCEPT !.dx = d[1], !.dy = d[2]]
    /\ op' = "Move"
    /\ UNCHANGED <<opts, calls, near, codecVars, queueVars, builderVars>>

SearchOp ==
    /\ Ready
    /\ \E rect \in QueryRects \cup {series.rect}, cb \in 0..MaxStop :
        /\ calls' = Search(series, rect, cb)
        /\ query' = [NoQuery EXCEPT !.rect = rect, !.cb = cb]
    /\ op' = "Search"
    /\ UNCHANGED <<series, opts, moved, near, codecVars, queueVars, builderVars>>

NearestOp ==
    /\ Ready
    /\ \E fn \in Functionals :
        /\ near' = DistanceToSeries(series, fn)
        /\ query' = [NoQuery EXCEPT !.fn = fn]
    /\ op' = "DistanceToSeries"
    /\ UNCHANGED <<series, opts, moved, calls, codecVars, queueVars, builderVars>>

\* the caller is done with the result of the last call
Return ==
    /\ ~Ready
    /\ op' = "idle"
    /\ query' = NoQuery /\ moved' = NoSeries /\ calls' = <<>> /\ near' = NoNear
    /\ UNCHANGED <<series, opts, codecVars, queueVars, builderVars>>

Next ==
    BuildIndex \/ ClearIndex \/ MoveOp \/ SearchOp \/ NearestOp \/ Return

Spec == Init /\ [][Next]_vars

----------------------------------------------------------------------------
(* Reading a blob back: the nodes of the compressed tree, as qSaneNode of  *)
(* qtree_test.go walks them, each with the bounds quadBounds gives it.     *)

RECURSIVE decodeItems(_, _, _, _, _)
\* the delta-decoded items of a node: [addr, items]
decodeItems(data, addr, n, last, items) ==
    IF n = 0 THEN [addr |-> addr, items |-> items]
    ELSE decodeItems(data, readUvarint(data, addr)[2], n - 1,
                     ToInt(readUvarint(data, addr)[1]) + last,
                     Append(items, ToInt(readUvarint(data, addr)[1]) + last))

RECURSIVE DecodeNodes(_, _, _, _)
RECURSIVE decodeQuads(_, _, _, _, _)

decodeQuads(data, addr, bounds, depth, q) ==
    IF q = 4 THEN <<>>
    ELSE LET rd == readUvarint(data, addr)
         IN IF ToInt(rd[1]) = 0
            THEN decodeQuads(data, rd[2], bounds, depth, q + 1)
            ELSE DecodeNodes(data, rd[2], quadBounds(bounds, q), depth + 1)
                 \o decodeQuads(data, rd[2] + ToInt(rd[1]), bounds, depth,
                                q + 1)

\* the nodes of the subtree at addr, in pre-order: [bounds, items, depth, split]
DecodeNodes(data, addr, bounds, depth) ==
    LET rd == readUvarint(data, addr)
        it == decodeItems(data, rd[2], ToInt(rd[1]), 0, <<>>)
        split == data[it.addr + 1] = 1
    IN <<[bounds |-> bounds, items |-> it.items, depth |-> depth,
          split |-> split]>>
       \o (IF split THEN decodeQuads(data, it.addr + 1, bounds, depth, 0)
           ELSE <<>>)

\* the nodes of the index of s, decoded from offset 5 with root bounds s.rect
IndexNodes(s) == DecodeNodes(s.index, 5, s.rect, 0)

HasIndex(s) == Len(s.index) > 0

\* the segment indices of s
SegIdx(s) == 0..(NumSegments(s) - 1)

\* the halving of the bounds of every split node of the index is exact
MidExactIn(s) ==
    HasIndex(s) =>
        \A k \in 1..Len(IndexNodes(s)) :
            LET nd == IndexNodes(s)[k]
            IN nd.split =>
                /\ (nd.bounds.Min.X + nd.bounds.Max.X) % 2 = 0
                /\ (nd.bounds.Min.Y + nd.bounds.Max.Y) % 2 = 0

\* The model stays where integer halving is the float64 halving.
MidExact == MidExactIn(series) /\ MidExactIn(moved)

----------------------------------------------------------------------------
(* Claims *)

\* the indices delivered by a sequence of callback invocations
CallIdx(cs) == {cs[k].idx : k \in 1..Len(cs)}

\* the segments of s whose rectangle intersects rect
Matching(s, rect) ==
    {i \in SegIdx(s) : IntersectsRect(SegRect(SegmentAt(s, i)), rect)}

\* the index of s has a split node below the root that keeps items
DeepIndex(s) ==
    /\ HasIndex(s)
    /\ LET nodes == IndexNodes(s)
       IN \E k \in 1..Len(nodes) :
             /\ nodes[k].depth >= 2
             /\ Len(nodes[k].items) > 0

\* C1: a Search with an always-true callback invokes it exactly once for
\* each segment whose rectangle intersects the query rectangle, with that
\* segment and its index, and for no other; this holds on the indexed path
\* and on the linear path alike.
C1_SearchComplete ==
    (op = "Search" /\ query.cb = 0) =>
        /\ CallIdx(calls) = Matching(series, query.rect)
        /\ Len(calls) = Cardinality(Matching(series, query.rect))
        /\ \A k \in 1..Len(calls) :
              calls[k].seg = SegmentAt(series, calls[k].idx)

\* C1 witness: an indexed search over a tree two levels deep that delivers
\* some segments and prunes others.
C1_Witness ==
    /\ op = "Search" /\ query.cb = 0
    /\ DeepIndex(series)
    /\ calls # <<>>
    /\ Len(calls) < NumSegments(series)

\* C5: once the callback has returned false it is not invoked again, and
\* what was delivered up to then is the start of the full enumeration with
\* the same rectangle.
C5_EarlyStop ==
    (op = "Search" /\ query.cb > 0) =>
        LET full == Search(series, query.rect, 0)
        IN /\ Len(calls) <= query.cb
           /\ Len(calls) = IF Len(full) < query.cb THEN Len(full)
                           ELSE query.cb
           /\ calls = SubSeq(full, 1, Len(calls))

\* C5 witness: an indexed search stopped by its first callback while more
\* segments match, in the same node and in the quadrants below.
C5_Witness ==
    /\ op = "Search" /\ query.cb = 1
    /\ DeepIndex(series)
    /\ Len(calls) = 1
    /\ Cardinality(Matching(series, query.rect)) > 12

\* C6: the segment-count law, Empty, and the end points of every segment.
SegmentLaw(s) ==
    LET n == Len(s.points)
        degenerate == (~s.closed /\ n < 2) \/ (s.closed /\ n < 3)
    IN /\ degenerate => (NumSegments(s) = 0 /\ Empty(s))
       /\ ~degenerate =>
            /\ ~Empty(s)
            /\ NumSegments(s) =
                 IF ~s.closed THEN n - 1
                 ELSE IF s.points[n] = s.points[1] THEN n - 1
                 ELSE n
       /\ \A i \in SegIdx(s) :
            SegmentAt(s, i) = [A |-> s.points[i + 1],
                               B |-> s.points[((i + 1) % n) + 1]]

C6_SegmentCount == SegmentLaw(series) /\ (op = "Move" => SegmentLaw(moved))

\* C6 witness: a closed ring whose last point repeats its first.
C6_Witness ==
    /\ series.closed
    /\ Len(series.points) >= 3
    /\ series.points[Len(series.points)] = series.points[1]
    /\ NumSegments(series) = Len(series.points) - 1

\* C7: in the decoded index every stored segment lies inside the bounds of
\* the node that stores it, and the stored indices are 0 .. NumSegments-1,
\* each once.
QuadtreeSane(s) ==
    HasIndex(s) =>
        LET nodes == IndexNodes(s)
        IN /\ \A k \in 1..Len(nodes) : \A j \in 1..Len(nodes[k].items) :
                /\ nodes[k].items[j] \in SegIdx(s)
                /\ ContainsRect(nodes[k].bounds,
                                SegRect(SegmentAt(s, nodes[k].items[j])))
           /\ \A i \in SegIdx(s) :
                Cardinality({k \in 1..Len(nodes) :
                    \E j \in 1..Len(nodes[k].items) : nodes[k].items[j] = i}) = 1
           /\ \A k \in 1..Len(nodes) : \A j1, j2 \in 1..Len(nodes[k].items) :
                nodes[k].items[j1] = nodes[k].items[j2] => j1 = j2

C7_QuadtreeSane == QuadtreeSane(series) /\ (op = "Move" => QuadtreeSane(moved))

\* C7 witness: an index two levels deep.
C7_Witness == DeepIndex(series)

\* the segment the brute-force scan finds nearest under fn: the lowest index
\* no other segment is strictly nearer than
Argmin(s, fn) ==
    CHOOSE i \in SegIdx(s) :
        /\ \A j \in SegIdx(s) :
              ~FLt(distToSegment(fn, SegmentAt(s, j)),
                   distToSegment(fn, SegmentAt(s, i)))
        /\ \A j \in SegIdx(s) :
              distToSegment(fn, SegmentAt(s, j))
                  = distToSegment(fn, SegmentAt(s, i)) => i <= j

NearestOf(s, fn) ==
    [seg |-> SegmentAt(s, Argmin(s, fn)), idx |-> Argmin(s, fn),
     dist |-> distToSegment(fn, SegmentAt(s, Argmin(s, fn)))]

\* distToRect is a lower bound: over the bounds of every node of the index,
\* it is at most distToSegment of every segment lying inside the bounds
LowerBound(s, fn) ==
    LET nodes == IndexNodes(s)
    IN \A k \in 1..Len(nodes) : \A i \in SegIdx(s) :
          ContainsRect(nodes[k].bounds, SegRect(SegmentAt(s, i))) =>
              ~FGt(distToRect(fn, nodes[k].bounds),
                   distToSegment(fn, SegmentAt(s, i)))

\* some segment other than i is as near as segment i
Tied(s, fn, i) ==
    \E j \in SegIdx(s) :
        /\ j # i
        /\ distToSegment(fn, SegmentAt(s, j))
               = distToSegment(fn, SegmentAt(s, i))

\* C2: on a series with an index and a segment, under functionals that keep
\* the lower-bound contract, DistanceToSeries returns the least distance,
\* the lowest index that attains it, and the segment at that index.
C2_NearestIndexed ==
    (/\ op = "DistanceToSeries"
     /\ HasIndex(series)
     /\ NumSegments(series) > 0
     /\ LowerBound(series, query.fn)) =>
        near = NearestOf(series, query.fn)

\* C2 witness: a nearest search over a tree two levels deep whose answer is
\* not segment 0 and is tied with another segment.
C2_Witness ==
    /\ op = "DistanceToSeries"
    /\ DeepIndex(series)
    /\ LowerBound(series, query.fn)
    /\ near.idx > 0
    /\ Tied(series, query.fn, near.idx)

\* C3: on a series without an index and with a segment, DistanceToSeries
\* returns the least distance, the lowest index that attains it, and the
\* segment at that index.
C3_NearestLinear ==
    (/\ op = "DistanceToSeries"
     /\ ~HasIndex(series)
     /\ NumSegments(series) > 0) =>
        near = NearestOf(series, query.fn)

\* C4: on a series with no segment, with or without an index,
\* DistanceToSeries returns the empty segment, index -1 and NaN.
C4_EmptySentinel ==
    (op = "DistanceToSeries" /\ NumSegments(series) = 0) => near = EmptyNear

\* C8: Move leaves its receiver as it was and returns a series with as many
\* points, the same closed flag, and every point shifted by (dx, dy).
C8_MoveFrame ==
    [][op' = "Move" =>
          /\ series' = series
          /\ moved'.closed = series.closed
          /\ Len(moved'.points) = Len(series.points)
          /\ \A i \in 1..Len(series.points) :
                moved'.points[i] = P(series.points[i].X + query'.dx,
                                     series.points[i].Y + query'.dy)]_vars

\* C8 witness: a Move of a series that has points and an index.
C8_Witness ==
    /\ op = "Move"
    /\ HasIndex(series)
    /\ Len(series.points) > 2
    /\ moved.points # series.points

\* C9: the series Move returns has an index exactly when its receiver has.
C9_MoveIndexPresence ==
    op = "Move" => (HasIndex(moved) <=> HasIndex(series))

\* the options makeSeries works with
Effective(o) == IF o.nil THEN DefaultIndexOptions ELSE o

\* C10: makeSeries builds an index exactly when MinPoints > 0 and the number
\* of points is at least MinPoints.
C10_IndexThreshold ==
    op = "makeSeries" =>
        (HasIndex(series) <=>
            /\ Effective(opts).MinPoints > 0
            /\ Len(series.points) >= Effective(opts).MinPoints)

\* the header of the index of s: the kind byte and the length it records
HeaderOk(s) ==
    HasIndex(s) =>
        /\ Len(s.index) >= 5
        /\ s.index[1] = QuadTree
        /\ Uint32(s.index, 1) = Len(s.index)

\* C11: a non-empty index starts with the byte 1 and carries its own length
\* in bytes 1..4, little-endian.
C11_IndexHeader == HeaderOk(series) /\ (op = "Move" => HeaderOk(moved))

\* s has the points its closed flag asks for: its metadata is computed
NonDegenerate(s) ==
    ~((s.closed /\ Len(s.points) < 3) \/ Len(s.points) < 2)

\* the 0-based point i of s, counted cyclically
Cyc(s, i) == s.points[(i % Len(s.points)) + 1]

\* the z-cross product of the triple of consecutive points that starts at i
CrossAt(s, i) ==
    (Cyc(s, i + 1).X - Cyc(s, i).X) * (Cyc(s, i + 2).Y - Cyc(s, i + 1).Y)
    - (Cyc(s, i + 1).Y - Cyc(s, i).Y) * (Cyc(s, i + 2).X - Cyc(s, i + 1).X)

\* where the triples of the reference start: everywhere on a closed series,
\* up to n - 3 on an open one
TripleStarts(s) ==
    IF s.closed THEN 0..(Len(s.points) - 1) ELSE 0..(Len(s.points) - 3)

RefConvex(s) ==
    ~\E i, j \in TripleStarts(s) : CrossAt(s, i) > 0 /\ CrossAt(s, j) < 0

ConvexLaw(s) == NonDegenerate(s) => (s.convex <=> RefConvex(s))

\* C12: Convex() holds exactly when the non-zero z-cross products of the
\* consecutive triples have one sign, the triples taken cyclically on a
\* closed series and without wrap on an open one.
C12_Convexity == ConvexLaw(series) /\ (op = "Move" => ConvexLaw(moved))

\* the term of the winding sum for the pair of points that starts at i
PairTerm(s, i) ==
    (Cyc(s, i + 1).X - Cyc(s, i).X) * (Cyc(s, i + 1).Y + Cyc(s, i).Y)

\* the sum of PairTerm over the pairs that start at lo .. hi
RECURSIVE PairSum(_, _, _)
PairSum(s, lo, hi) ==
    IF lo > hi THEN 0
    ELSE IF lo = hi THEN PairTerm(s, lo)
    ELSE PairSum(s, lo, (lo + hi) \div 2)
         + PairSum(s, ((lo + hi) \div 2) + 1, hi)

\* the winding sum of the reference: the wrap pair counts on a closed series
RefCwc(s) ==
    PairSum(s, 0, IF s.closed THEN Len(s.points) - 1 ELSE Len(s.points) - 2)

WindingLaw(s) == NonDegenerate(s) => (s.clockwise <=> RefCwc(s) > 0)

\* C13: Clockwise() holds exactly when the winding sum over the consecutive
\* pairs is positive, the wrap pair counted on a closed series only.
C13_Winding == WindingLaw(series) /\ (op = "Move" => WindingLaw(moved))

\* the rectangle of s is the axis-wise minimum and maximum of its points
BoxLaw(s) ==
    NonDegenerate(s) =>
        /\ \A i \in 1..Len(s.points) :
              /\ s.rect.Min.X <= s.points[i].X /\ s.points[i].X <= s.rect.Max.X
              /\ s.rect.Min.Y <= s.points[i].Y /\ s.points[i].Y <= s.rect.Max.Y
        /\ \E i \in 1..Len(s.points) : s.points[i].X = s.rect.Min.X
        /\ \E i \in 1..Len(s.points) : s.points[i].X = s.rect.Max.X
        /\ \E i \in 1..Len(s.points) : s.points[i].Y = s.rect.Min.Y
        /\ \E i \in 1..Len(s.points) : s.points[i].Y = s.rect.Max.Y

\* C14: the rectangle of a non-degenerate series is the axis-wise minimum
\* and maximum over its points, in whatever order they come.
C14_BoundingBox == BoxLaw(series) /\ (op = "Move" => BoxLaw(moved))

\* C14 witness: a series whose first point is no corner of its rectangle
\* and whose lowest and highest points come after a point between them.
C14_Witness ==
    /\ NonDegenerate(series)
    /\ series.points[1] # series.rect.Min
    /\ series.points[1] # series.rect.Max
    /\ \E i, j \in 2..Len(series.points) :
          /\ series.points[i].Y = series.rect.Min.Y
          /\ series.points[j].Y = series.rect.Max.Y
          /\ series.points[1].Y > series.rect.Min.Y
          /\ series.points[1].Y < series.rect.Max.Y

----------------------------------------------------------------------------
(* The varint codec on its own: a value is appended to a buffer that may   *)
(* hold bytes already and is read back where it starts; or a run of raw    *)
(* bytes is read from its start.                                           *)

\* the longest run of continuation bytes of a raw buffer
MaxRun == 11

\* the uint64 values handed to appendUvarint: the ends of every limb and of
\* the 7-bit groups inside them, 0 and 2^64 - 1 among them
VarintValues ==
    {<<l0, l1, l2>> : l0 \in {0, 1, 127, 128, 16383, 16384, Limb - 1},
                      l1 \in {0, 1, 127, 128, Limb - 1},
                      l2 \in {0, 1, 127, 128, 255}}

\* the bytes a buffer holds before the value is appended
Prefixes == {<<>>, <<255>>, <<1, 128>>}

\* n continuation bytes c and one last byte e
Raw(n, c, e) == [i \in 1..(n + 1) |-> IF i <= n THEN c ELSE e]

RawBuffers ==
    {Raw(n, c, e) : n \in 0..MaxRun, c \in {128, 255}, e \in {0, 1, 127}}

SeriesIdle ==
    /\ series = NoSeries /\ opts = NilOptions /\ op = "idle"
    /\ query = NoQuery /\ moved = NoSeries /\ calls = <<>> /\ near = NoNear

InitCodec ==
    /\ SeriesIdle
    /\ QueueIdle
    /\ BuilderIdle
    /\ got = <<<<0, 0, 0>>, 0>>
    /\ \/ /\ phase = "start"
          /\ val \in VarintValues
          /\ buf \in Prefixes
          /\ at = Len(buf)
       \/ /\ phase = "raw"
          /\ val = <<0, 0, 0>>
          /\ buf \in RawBuffers
          /\ at = 0

AppendOp ==
    /\ phase = "start"
    /\ buf' = appendUvarint(buf, val)
    /\ phase' = "appended"
    /\ UNCHANGED <<val, at, got, seriesVars, queueVars, builderVars>>

ReadOp ==
    /\ phase \in {"appended", "raw"}
    /\ got' = readUvarint(buf, at)
    /\ phase' = IF phase = "raw" THEN "readraw" ELSE "read"
    /\ UNCHANGED <<val, buf, at, seriesVars, queueVars, builderVars>>

NextCodec == AppendOp \/ ReadOp

SpecCodec == InitCodec /\ [][NextCodec]_vars

\* every byte of data from the 0-based lo up to hi, hi left out, has the
\* continuation bit
AllContinue(data, lo, hi) == \A i \in (lo + 1)..hi : data[i] >= 128

\* C19: what appendUvarint wrote at offset k reads back as the value and
\* the end of the buffer; it is 1 byte below 128 and at most 10 bytes, with
\* the continuation bit on every byte but the last; the bytes before it
\* are left as they were.
C19_VarintRoundTrip ==
    phase \in {"appended", "read"} =>
        /\ SubSeq(buf, 1, at) \in Prefixes
        /\ Len(buf) - at >= 1
        /\ Len(buf) - at <= 10
        /\ (Below128(val) => Len(buf) - at = 1)
        /\ AllContinue(buf, at, Len(buf) - 1)
        /\ buf[Len(buf)] < 128
        /\ (phase = "read" => got = <<val, Len(buf)>>)

\* C19 witness: 2^64 - 1 read back from its 10 bytes behind two other bytes.
C19_Witness ==
    /\ phase = "read"
    /\ at = 2
    /\ Len(buf) - at = 10
    /\ got[1] = <<Limb - 1, Limb - 1, 255>>

\* C20: readUvarint returns (0, -1) exactly when the 10 bytes it starts at
\* all have the continuation bit, and never for an encoding of 10 bytes or
\* fewer.
C20_VarintOverflow ==
    /\ phase = "readraw" =>
          /\ (got[2] = -1) <=> (Len(buf) > 10 /\ AllContinue(buf, 0, 10))
          /\ got[2] = -1 => got[1] = Uint64(0)
          /\ got[2] # -1 => got[2] = Len(buf)
    /\ phase = "read" => got[2] # -1

\* C20 witness: the sentinel, read from ten bytes 0xff and a last byte 1.
C20_Witness ==
    /\ phase = "readraw"
    /\ buf = Raw(10, 255, 1)
    /\ got = <<Uint64(0), -1>>

----------------------------------------------------------------------------
(* Queries over a damaged blob: the index of a series whose root is not    *)
(* split, rewritten so that the root is split, its first three quadrants   *)
(* are empty and the size of the fourth is a varint of ten continuation    *)
(* bytes. Every read the queries make of such a blob stays inside it.      *)

\* the overflowing varint: ten bytes 0xff and a last byte 1
Overflowing == Raw(10, 255, 1)

\* s with the split byte of its root and what follows it rewritten
Damaged(s) ==
    setCompressed(s, SubSeq(s.index, 1, Len(s.index) - 1)
                         \o <<1, 0, 0, 0>> \o Overflowing)

\* the point sequences that get an index whose root stays whole: at least
\* one point, at most qMaxItems segments
WholeRootShapes ==
    {points \in SmallShapes : Len(points) >= 1} \cup {Octagon, Spiral, Snake(12)}

InitDamaged ==
    /\ \E points \in WholeRootShapes, closed \in BOOLEAN :
          /\ series = Damaged(makeSeries(points, closed, Opt(QuadTree, 1)))
          /\ opts = Opt(QuadTree, 1)
          /\ op = "makeSeries"
          /\ query = NoQuery
          /\ moved = NoSeries
          /\ calls = <<>>
          /\ near = NoNear
    /\ CodecIdle
    /\ QueueIdle
    /\ BuilderIdle

NextDamaged == SearchOp \/ NearestOp \/ Return

SpecDamaged == InitDamaged /\ [][NextDamaged]_vars

\* the index of s holds ten continuation bytes in a row
HoldsOverflow(s) ==
    /\ HasIndex(s)
    /\ \E addr \in 5..(Len(s.index) - 10) :
          AllContinue(s.index, addr, addr + 10)

\* C15: a query that reads an overflowing varint ends as a failure: the
\* nearest search returns neither the empty result nor a segment of the
\* series, and the rectangle search does not run to its normal end.
C15_DecodeError ==
    HoldsOverflow(series) =>
        /\ op = "DistanceToSeries" =>
              /\ near # EmptyNear
              /\ near.idx \notin SegIdx(series)
        /\ (op = "Search" /\ query.cb = 0) =>
              ~qCompressSearch(series.index, 5, series, series.rect,
                               query.rect, query.cb, <<>>).ok

----------------------------------------------------------------------------
(* The priority queue on its own: one queue, starting empty as `var q     *)
(* queue` does, pushed to and popped from in any order. popped keeps what *)
(* every pop returned, [node, ok], and with it mono: no entry pushed      *)
(* since the successful pop before compared less than what that pop       *)
(* returned.                                                              *)

MaxOps == 6

\* the entries pushed: two distances, and at each a rectangle and two
\* segments
QNodes ==
    {[dist |-> F(d), kind |-> kp[1], pos |-> kp[2], a |-> ZeroPoint,
      b |-> ZeroPoint] :
        d \in 1..2, kp \in {<<qrect, 0>>, <<qseg, 0>>, <<qseg, 1>>}}

InitQueue ==
    /\ SeriesIdle
    /\ CodecIdle
    /\ BuilderIdle
    /\ heap = <<>>
    /\ popped = <<>>
    /\ npush = 0
    /\ nops = 0
    /\ under = FALSE

\* the successful pops, in order
Oks(h) == SelectSeq(h, LAMBDA r : r.ok)

Push ==
    /\ nops < MaxOps
    /\ \E node \in QNodes :
          /\ heap' = push(heap, node)
          /\ under' = (under \/ LET oks == Oks(popped)
                                IN /\ oks # <<>>
                                   /\ cmp(node, oks[Len(oks)].node) < 0)
    /\ npush' = npush + 1
    /\ nops' = nops + 1
    /\ UNCHANGED <<popped, seriesVars, codecVars, builderVars>>

Pop ==
    /\ nops < MaxOps
    /\ LET r == pop(heap)
       IN /\ heap' = r.q
          /\ popped' = Append(popped, [node |-> r.node, ok |-> r.ok,
                                       mono |-> ~under])
          /\ under' = (IF r.ok THEN FALSE ELSE under)
    /\ nops' = nops + 1
    /\ UNCHANGED <<npush, seriesVars, codecVars, builderVars>>

NextQueue == Push \/ Pop

SpecQueue == InitQueue /\ [][NextQueue]_vars

\* a queue that holds nothing has returned as many entries as were pushed
Drained == heap = <<>> => Len(Oks(popped)) = npush

\* C16 as stated: whatever the order of pushes and pops, no entry is popped
\* after one that compares greater, and a drained queue has returned every
\* entry pushed.
C16_AnyInterleaving ==
    /\ LET oks == Oks(popped)
       IN \A i \in 1..Len(oks) : \A j \in (i + 1)..Len(oks) :
             cmp(oks[i].node, oks[j].node) <= 0
    /\ Drained

\* C16, amended: a pop returns an entry that compares no less than the one
\* the successful pop before returned, provided no entry pushed in between
\* compared less than that one; and a drained queue has returned every
\* entry pushed.
C16_MonotonePop ==
    /\ LET oks == Oks(popped)
       IN \A i \in 2..Len(oks) :
             oks[i].mono => cmp(oks[i - 1].node, oks[i].node) <= 0
    /\ Drained

\* pushes and pops interleaved, the queue drained, three entries returned in
\* order and not all equal
C16_Witness ==
    /\ heap = <<>>
    /\ npush = 3
    /\ Len(popped) = 3
    /\ \A i \in 1..3 : popped[i].ok /\ popped[i].mono
    /\ cmp(popped[1].node, popped[3].node) < 0
    /\ nops = 6

\* no entry of q compares less than its parent
HeapOk(q) ==
    \A i \in 1..(Len(q) - 1) : cmp(q[i + 1], q[((i - 1) \div 2) + 1]) >= 0

\* how many times the entry n is held in q
Count(q, n) == Cardinality({i \in 1..Len(q) : q[i] = n})

\* what a step that pops must do
PopLaw ==
    Len(popped') = Len(popped) + 1 =>
        LET r == popped'[Len(popped')]
        IN IF heap = <<>>
           THEN r.node = ZeroQnode /\ ~r.ok /\ heap' = <<>>
           ELSE /\ r.ok
                /\ \A i \in 1..Len(heap) : cmp(r.node, heap[i]) <= 0
                /\ Len(heap') = Len(heap) - 1
                /\ \A n \in QNodes :
                      Count(heap', n) =
                          Count(heap, n) - (IF n = r.node THEN 1 ELSE 0)

\* C17: the queue is a binary min-heap under cmp after every push and pop;
\* a pop on a non-empty queue returns an entry minimal among those held and
\* removes that one entry only; a pop on an empty queue returns the zero
\* entry and false and leaves the queue empty.
C17_HeapProperty == [](HeapOk(heap)) /\ [][PopLaw]_vars

\* a pop on the empty queue and a pop that left three entries behind, which
\* had to sift the moved entry down
C17_Witness ==
    /\ Len(heap) >= 3
    /\ \E i, j \in 1..Len(popped) : popped[i].ok /\ ~popped[j].ok
    /\ \E i \in 2..Len(heap) : cmp(heap[1], heap[i]) < 0

\* the entries the queue holds or has returned
Seen ==
    {heap[i] : i \in 1..Len(heap)} \cup {r.node : r \in {x \in {popped[i] : i \in 1..Len(popped)} : x.ok}}

\* the order of the keys (dist, kind, pos), kinds ordered RECT < SEGMENT
KeyLess(x, y) ==
    \/ x.dist.v < y.dist.v
    \/ /\ x.dist.v = y.dist.v
       /\ \/ (x.kind = qrect /\ y.kind = qseg)
          \/ (x.kind = y.kind /\ x.pos < y.pos)

\* C18: on entries of non-NaN dist cmp is the order of (dist, kind, pos):
\* -1 exactly when the keys are less, 0 only when all three are equal,
\* antisymmetric and transitive.
C18_CmpTotalOrder ==
    \A x \in Seen, y \in Seen :
        (~x.dist.nan /\ ~y.dist.nan) =>
            /\ cmp(x, y) \in {-1, 0, 1}
            /\ cmp(x, y) = -1 <=> KeyLess(x, y)
            /\ cmp(x, y) = 1 <=> KeyLess(y, x)
            /\ cmp(x, y) = 0 =>
                  (x.dist = y.dist /\ x.kind = y.kind /\ x.pos = y.pos)
            /\ cmp(x, y) = -cmp(y, x)
            /\ \A z \in Seen :
                  (~z.dist.nan /\ cmp(x, y) <= 0 /\ cmp(y, z) <= 0) =>
                      cmp(x, z) <= 0

\* the queue holds a rectangle and two segments at one distance, and an
\* entry at a smaller one
C18_Witness ==
    \E w \in Seen, x \in Seen, y \in Seen, z \in Seen :
        /\ w.dist.v < x.dist.v
        /\ x.dist = y.dist /\ y.dist = z.dist
        /\ x.kind = qrect /\ y.kind = qseg /\ z.kind = qseg
        /\ y.pos < z.pos
        /\ cmp(w, x) = -1 /\ cmp(x, y) = -1 /\ cmp(y, z) = -1
        /\ cmp(x, z) = -1

----------------------------------------------------------------------------
(* The quadtree builder on its own: the segments of a series inserted one *)
(* by one, in index order, as the loop of buildIndex does. base is the    *)
(* depth the node is at. A series of equal points has a one-point         *)
(* rectangle, every quadrant of it is that rectangle again, and the node  *)
(* at any depth on its way down is handed the segments 0, 1, 2, ... in    *)
(* order: for such a series the node may start at any depth, as the node  *)
(* of TestQTreeVarious starts at qMaxDepth.                               *)

\* the longest run of equal points
MaxSame == 16

\* the depths below the root a node of equal points is started at
DeepBases == {qMaxDepth - 2, qMaxDepth - 1, qMaxDepth}

BuilderShapes ==
    ({Snake(14), Snake(20), Snake(64), Blob(16), Blob(30), Octagon, Spiral}
        \X {0})
    \cup ({Same(n) : n \in 2..MaxSame} \X DeepBases)

InitBuilder ==
    /\ \E in \in BuilderShapes, closed \in BOOLEAN :
          /\ series = makeSeries(in[1], closed, NoIndexing)
          /\ base = in[2]
    /\ opts = NoIndexing
    /\ op = "insert"
    /\ query = NoQuery
    /\ moved = NoSeries
    /\ calls = <<>>
    /\ near = NoNear
    /\ tree = NewNode
    /\ filled = 0
    /\ CodecIdle
    /\ QueueIdle

\* the node after the insert of the next segment
Inserted ==
    insert(tree, series, series.rect, SegRect(SegmentAt(series, filled)),
           filled, base)

\* one turn of the loop of buildIndex
InsertOp ==
    /\ filled < NumSegments(series)
    /\ tree' = Inserted
    /\ filled' = filled + 1
    /\ UNCHANGED <<base, seriesVars, codecVars, queueVars>>

NextBuilder == InsertOp

SpecBuilder == InitBuilder /\ [][NextBuilder]_vars

\* the items held in n and below it, as a sequence
RECURSIVE SubtreeItems(_)
SubtreeItems(n) ==
    LET below(q) == IF n.quads[q] = <<>> THEN <<>>
                    ELSE SubtreeItems(n.quads[q][1])
    IN n.items \o below(1) \o below(2) \o below(3) \o below(4)

\* the set of the entries of a sequence
Range(f) == {f[i] : i \in 1..Len(f)}

\* every node of the subtree of n that lies above qMaxDepth is unsplit,
\* with at most qMaxItems items and no quads, or split, holding straddlers
\* only, each quad holding only items chooseQuad sends to it
RECURSIVE NodeLaw(_, _, _, _)
NodeLaw(n, s, bounds, depth) ==
    LET quadOf(item) == chooseQuad(bounds, SegRect(SegmentAt(s, item)))
    IN /\ depth < qMaxDepth =>
             IF n.split
             THEN \A item \in Range(n.items) : quadOf(item) = -1
             ELSE /\ Len(n.items) <= qMaxItems
                  /\ \A q \in 1..4 : n.quads[q] = <<>>
       /\ \A q \in 1..4 :
             n.quads[q] # <<>> =>
                /\ \A item \in Range(SubtreeItems(n.quads[q][1])) :
                      quadOf(item) = q - 1
                /\ NodeLaw(n.quads[q][1], s, quadBounds(bounds, q - 1),
                           depth + 1)

\* the tree holds the segments inserted so far, each once
HoldsAll ==
    LET all == SubtreeItems(tree)
    IN Len(all) = filled /\ Range(all) = 0..(filled - 1)

\* C21: after every insert, every node above qMaxDepth is unsplit with at
\* most 12 items and no children, or split and keeping straddlers of its
\* mid-lines only, every other item lying in the subtree of the quadrant
\* chooseQuad selects for it.
C21_NodeCapacity ==
    HoldsAll /\ NodeLaw(tree, series, series.rect, base)

\* a root split on its 13th item that kept straddlers and filled a quad to
\* its 12 items
C21_Witness ==
    /\ base = 0
    /\ tree.split
    /\ tree.items # <<>>
    /\ \E q \in 1..4 :
          /\ tree.quads[q] # <<>>
          /\ ~tree.quads[q][1].split
          /\ Len(tree.quads[q][1].items) = qMaxItems

\* no node of the subtree of n lies below qMaxDepth, and one at qMaxDepth is
\* unsplit and has no quads
RECURSIVE DepthLaw(_, _)
DepthLaw(n, depth) ==
    /\ depth <= qMaxDepth
    /\ depth = qMaxDepth => (~n.split /\ \A q \in 1..4 : n.quads[q] = <<>>)
    /\ \A q \in 1..4 :
          n.quads[q] # <<>> => DepthLaw(n.quads[q][1], depth + 1)

\* the items of the node at qMaxDepth that the segments of a one-point
\* series end in, <<>> while there is no such node
RECURSIVE Floor(_, _)
Floor(n, depth) ==
    IF depth = qMaxDepth THEN n.items
    ELSE IF n.quads[2] = <<>> THEN <<>>
    ELSE Floor(n.quads[2][1], depth + 1)

\* C22: the insert of the next segment ends, with a node that holds one
\* item more; no node lies deeper than qMaxDepth; a node at qMaxDepth is
\* never split and holds every item inserted into it, in order, however
\* many.
C22_DepthCap ==
    /\ filled < NumSegments(series) =>
          Len(SubtreeItems(Inserted)) = filled + 1
    /\ DepthLaw(tree, base)
    /\ HoldsAll
    /\ base = qMaxDepth => tree.items = [i \in 1..filled |-> i - 1]
    /\ Len(Floor(tree, base)) \in {0, filled}

\* two splits above a node at qMaxDepth that holds more than 12 items
C22_Witness ==
    /\ base = qMaxDepth - 2
    /\ tree.split
    /\ Len(Floor(tree, base)) > qMaxItems
    /\ filled = NumSegments(series)

----------------------------------------------------------------------------
(* The order of delivery of Search, against the live tree buildIndex      *)
(* compressed.                                                            *)

\* the nodes of the live subtree of n in pre-order, quads in the order 0,
\* 1, 2, 3, each as DecodeNodes gives a node of the blob
RECURSIVE LiveNodes(_, _, _)
LiveNodes(n, bounds, depth) ==
    LET below(q) == IF n.quads[q + 1] = <<>> THEN <<>>
                    ELSE LiveNodes(n.quads[q + 1][1], quadBounds(bounds, q),
                                   depth + 1)
    IN <<[bounds |-> bounds, items |-> n.items, depth |-> depth,
          split |-> n.split]>>
       \o below(0) \o below(1) \o below(2) \o below(3)

\* the items of a sequence of nodes, node after node
RECURSIVE ItemsOf(_)
ItemsOf(nodes) ==
    IF nodes = <<>> THEN <<>> ELSE nodes[1].items \o ItemsOf(Tail(nodes))

Ascending(items) ==
    \A i \in 1..(Len(items) - 1) : items[i] < items[i + 1]

\* the indices a sequence of callback invocations delivered, in order
IdxSeq(cs) == [k \in 1..Len(cs) |-> cs[k].idx]

\* the entries of items whose segment matches rect, in the order of items
MatchingOf(s, rect, items) ==
    SelectSeq(items,
              LAMBDA i : IntersectsRect(SegRect(SegmentAt(s, i)), rect))

\* the first entries of full a callback with stop count cb lets through
UpTo(full, cb) ==
    IF cb = 0 \/ Len(full) < cb THEN full ELSE SubSeq(full, 1, cb)

\* what the blob of s must decode to and a Search of s must deliver
OrderLaw(s, rect, cb, cs) ==
    IF HasIndex(s)
    THEN LET live == LiveNodes(buildTree(s), s.rect, 0)
         IN /\ \A k \in 1..Len(live) : Ascending(live[k].items)
            /\ IndexNodes(s) = live
            /\ IdxSeq(cs) = UpTo(MatchingOf(s, rect, ItemsOf(live)), cb)
    ELSE IdxSeq(cs) =
             UpTo(MatchingOf(s, rect, [i \in 1..NumSegments(s) |-> i - 1]),
                  cb)

\* C23: an indexed Search delivers the matching segments in pre-order of
\* the tree, the items of a node in ascending index before those of its
\* quads, the quads in the order 0, 1, 2, 3; the items of every node are
\* ascending when they are delta-encoded, and every node of the blob is
\* decoded at its own offset, so the blob reads back as the live tree; a
\* Search without an index delivers the matching segments in ascending
\* index.
C23_DeliveryOrder ==
    op = "Search" => OrderLaw(series, query.rect, query.cb, calls)

\* an indexed search over a tree two levels deep that prunes some
\* segments and delivers a segment after one of greater index
C23_Witness ==
    /\ op = "Search" /\ query.cb = 0
    /\ DeepIndex(series)
    /\ Len(calls) < NumSegments(series)
    /\ \E j \in 1..Len(calls), k \in 1..Len(calls) :
          j < k /\ calls[j].idx > calls[k].idx

====
